---- MODULE Spec2Model ----
(***************************************************************************)
(* Model of overlay_images_node (src/overlay_images/overlay_images.py)      *)
(* and of images_to_video_node (src/images_to_video/images_to_video.py).   *)
(*                                                                         *)
(* One call of the node is a run of the state machine: Init draws the      *)
(* arguments the host passes, and each action is one block of the          *)
(* function's body, in the order the code executes them.                   *)
(*                                                                         *)
(* Numbers.  Pixel samples of a normalised image are modelled as integers  *)
(* 0..Scale (Scale stands for 1.0).  Halves are kept exact: a quantity     *)
(* n/2 is carried as its numerator n, and the conversions int(), round()   *)
(* and astype("int") are applied to it as Python / NumPy apply them.       *)
(***************************************************************************)
EXTENDS Integers, Sequences, FiniteSets

VARIABLES
    base,             \* caller's base buffer           (argument)
    overlay,          \* caller's overlay buffer        (argument)
    opacity,          \* 0..100                         (argument)
    overlay_position, \* OverlayPosition value          (argument)
    x_percent, y_percent, x_px, y_px,                \* (arguments)
    pc,               \* position in the function body
    x0, y0,           \* anchor of the overlay in base coordinates
    i_rect,           \* intersection area  [x0, x1, y0, y1]
    ov_rect,          \* overlay sub-rectangle [x0, x1, y0, y1]
    ovl,              \* the local name `overlay` once rebound (crop / BGRA)
    ovl_ref,          \* the buffer `ovl` is stored in: "caller" | "private"
    out,              \* the local name `base` after base.copy(), then `output`
    out_ref,          \* the buffer `out` is stored in: "caller" | "private"
    blended_img,      \* result of blend_images
    outcome,          \* "none" | "ok" | "error"
    err,              \* the assertion message of a failed validation
    result,           \* the returned image
    trace,            \* the blocks executed so far, in order
    \* images_to_video_node
    v_pc,             \* position in the function body
    directory,        \* entries of image_directory
    image_extension,  \* ImageExtension value              (argument)
    filepaths,        \* the files kept by the listing loop
    concat_file,      \* lines of the concatenation file
    tmp_created,      \* the temporary directory and file exist
    ffmpeg_started,   \* the FFmpeg process was started
    stderr,           \* what FFmpeg wrote to stderr, line by line
    video_exists,     \* the output video file exists
    video_removed,    \* os.remove(video_filepath) succeeded
    erroneous_file,   \* the local erroneous_file
    v_outcome,        \* "none" | "ok" | "error"
    v_err             \* the exception that ended the call

ovars == <<base, overlay, opacity, overlay_position, x_percent, y_percent,
          x_px, y_px, pc, x0, y0, i_rect, ov_rect, ovl, ovl_ref, out,
          out_ref, blended_img, outcome, err, result, trace>>

vvars == <<v_pc, directory, image_extension, filepaths, concat_file,
           tmp_created, ffmpeg_started, stderr, video_exists, video_removed,
           erroneous_file, v_outcome, v_err>>

vars == <<ovars, vvars>>

\* The scalar arguments, and all the arguments (the two buffers included).
params == <<opacity, overlay_position, x_percent, y_percent, x_px, y_px>>

args == <<base, overlay, params>>

\* Where the local names `overlay` and `base` / `output` point.
refs == <<ovl_ref, out_ref>>

----------------------------------------------------------------------------
(* Bounds of the model *)

MaxW == 4
MaxH == 2

(* Program constants *)

Scale == 100
OpacityMax == 100
PercentMin == -100
PercentMax == 100

----------------------------------------------------------------------------
(* Arithmetic helpers *)

Max(a, b) == IF a >= b THEN a ELSE b
Min(a, b) == IF a <= b THEN a ELSE b

\* int(n / d) and ndarray.astype("int"): truncation toward zero (d > 0).
TruncDiv(n, d) == IF n >= 0 THEN n \div d ELSE -((-n) \div d)

\* Python's round(n / 2): to nearest, ties to the even integer.
PyRoundHalf(n) ==
    IF n % 2 = 0 THEN n \div 2
    ELSE LET k == n \div 2 IN IF k % 2 = 0 THEN k ELSE k + 1

\* round(n / 2) of the host's type language: to nearest, ties upward.
NaviRoundHalf(n) == (n + 1) \div 2

----------------------------------------------------------------------------
(* Images: [h, w, c, px], px maps <<row, column>> to a tuple of c samples.  *)

Coords(h, w) == (0 .. h - 1) \X (0 .. w - 1)

EmptyImage == [h |-> 0, w |-> 0, c |-> 0, px |-> [p \in {} |-> <<>>]]

Channels == {1, 3, 4}

\* A base image of the given shape; samples differ by row, column, channel;
\* its alpha plane, when it has one, is not opaque.
MakeBase(h, w, c) ==
    [h |-> h, w |-> w, c |-> c,
     px |-> [p \in Coords(h, w) |->
               [k \in 1 .. c |->
                  IF k = 4 THEN (4 * Scale) \div 5 ELSE 7 * p[1] + 3 * p[2] + k]]]

\* An overlay image of the given shape with alpha a on every pixel (c = 4).
MakeOverlay(h, w, c, a) ==
    [h |-> h, w |-> w, c |-> c,
     px |-> [p \in Coords(h, w) |->
               [k \in 1 .. c |->
                  IF k = 4 THEN a ELSE 50 + 11 * p[1] + 3 * p[2] + k]]]

get_h_w_c(img) == <<img.h, img.w, img.c>>

\* One pixel as BGRA: grey is replicated, a missing alpha is opaque.
PixelToBGRA(t) ==
    IF Len(t) = 1 THEN <<t[1], t[1], t[1], Scale>>
    ELSE IF Len(t) = 3 THEN <<t[1], t[2], t[3], Scale>>
    ELSE t

PixelToBGR(t) == IF Len(t) = 1 THEN <<t[1], t[1], t[1]>> ELSE t

convert_to_BGRA(img, in_c) ==
    [h |-> img.h, w |-> img.w, c |-> 4,
     px |-> [p \in DOMAIN img.px |-> PixelToBGRA(img.px[p])]]

\* as_2d_grayscale followed by np.dstack((output, output, output))
StackGrey3(img) ==
    [h |-> img.h, w |-> img.w, c |-> 3,
     px |-> [p \in DOMAIN img.px |-> PixelToBGR(img.px[p])]]

\* img[ya:yb, xa:xb]
CropImageShifted(img, ya, yb, xa, xb) ==
    [h |-> yb - ya, w |-> xb - xa, c |-> img.c,
     px |-> [p \in Coords(yb - ya, xb - xa) |-> img.px[<<p[1], p[2]>>]]]

CropImage(img, ya, yb, xa, xb) ==
    [h |-> yb - ya, w |-> xb - xa, c |-> img.c,
     px |-> [p \in Coords(yb - ya, xb - xa) |->
               img.px[<<p[1] + ya, p[2] + xa>>]]]

\* overlay[:, :, 3] *= opacity   (opacity already divided by 100)
ScaleAlpha(img, op) ==
    [img EXCEPT !.px = [p \in DOMAIN img.px |->
        [img.px[p] EXCEPT ![4] = (img.px[p][4] * op) \div OpacityMax]]]

\* blend_images(overlay, base, BlendMode.NORMAL): both of one size; the result
\* has the larger channel count; out = overlay * a + base * (1 - a).
BlendPixel(o, b, c) ==
    LET o4 == PixelToBGRA(o)
        b4 == PixelToBGRA(b)
        a  == o4[4]
        mix(k) == (o4[k] * a + b4[k] * (Scale - a)) \div Scale
    IN  IF c = 4
        THEN <<mix(1), mix(2), mix(3), a + (b4[4] * (Scale - a)) \div Scale>>
        ELSE IF c = 3 THEN <<mix(1), mix(2), mix(3)>>
        ELSE <<mix(1)>>

blend_images(ov, b) ==
    LET c == Max(ov.c, b.c)
    IN  [h |-> b.h, w |-> b.w, c |-> c,
         px |-> [p \in DOMAIN b.px |-> BlendPixel(ov.px[p], b.px[p], c)]]

\* output[ya:yb, xa:xb] = region
AssignRegion(img, ya, yb, xa, xb, region) ==
    [img EXCEPT !.px = [p \in DOMAIN img.px |->
        IF ya <= p[1] /\ p[1] < yb /\ xa <= p[2] /\ p[2] < xb
        THEN region.px[<<p[1] - ya, p[2] - xa>>]
        ELSE img.px[p]]]

----------------------------------------------------------------------------
(* Buffers.  A local array name points either into a buffer the caller     *)
(* passed ("caller") or into an array allocated during the call            *)
(* ("private"); an in-place write lands in the buffer the name points to.  *)

\* a[ya:yb, xa:xb]: basic slicing returns a view on the same buffer.
SliceRef(ref) == ref

\* a.copy(): a new array.
CopyRefAliased(ref) == ref

CopyRef(ref) == "private"

\* convert_to_BGRA(img, in_c): cv2.cvtColor allocates for 1 and 3 channels,
\* and a 4-channel image is returned as a copy.
ConvertedRef(ref, in_c) == "private"

\* np.dstack: a new array.
StackedRef(ref) == "private"

\* The caller's buffer after a write of `contents` through a name pointing at
\* `ref`, the name covering rows ya..yb-1 and columns xa..xb-1 of the buffer.
WriteThrough(ref, buffer, ya, yb, xa, xb, contents) ==
    IF ref = "caller"
    THEN AssignRegion(buffer, ya, yb, xa, xb, contents)
    ELSE buffer

----------------------------------------------------------------------------
(* OverlayPosition and the factor table.  A factor f in {0, 0.5, 1} is kept  *)
(* as 2f in {0, 1, 2}.                                                      *)

FixedPositions ==
    {"top_left", "top_centered", "top_right",
     "centered_left", "centered", "centered_right",
     "bottom_left", "bottom_centered", "bottom_right"}

OverlayPosition == FixedPositions \cup {"percent_offset", "pixel_offset"}

OVERLAY_X0_Y0_FACTORS_SWAPPED(pos) ==
    CASE pos = "top_left"        -> <<0, 0>>
      [] pos = "top_centered"    -> <<1, 0>>
      [] pos = "top_right"       -> <<0, 2>>
      [] pos = "centered_left"   -> <<0, 1>>
      [] pos = "centered"        -> <<1, 1>>
      [] pos = "centered_right"  -> <<2, 1>>
      [] pos = "bottom_left"     -> <<2, 0>>
      [] pos = "bottom_centered" -> <<1, 2>>
      [] pos = "bottom_right"    -> <<2, 2>>
      [] pos = "percent_offset"  -> <<2, 2>>
      [] pos = "pixel_offset"    -> <<0, 0>>

OVERLAY_X0_Y0_FACTORS(pos) ==
    CASE pos = "top_left"        -> <<0, 0>>
      [] pos = "top_centered"    -> <<1, 0>>
      [] pos = "top_right"       -> <<2, 0>>
      [] pos = "centered_left"   -> <<0, 1>>
      [] pos = "centered"        -> <<1, 1>>
      [] pos = "centered_right"  -> <<2, 1>>
      [] pos = "bottom_left"     -> <<0, 2>>
      [] pos = "bottom_centered" -> <<1, 2>>
      [] pos = "bottom_right"    -> <<2, 2>>
      [] pos = "percent_offset"  -> <<2, 2>>
      [] pos = "pixel_offset"    -> <<0, 0>>

\* np.array([bw - ow, bh - oh] * FACTORS[pos]).astype("int")
FixedAnchor(pos, bw, bh, ow, oh) ==
    LET f == OVERLAY_X0_Y0_FACTORS(pos)
    IN  <<TruncDiv((bw - ow) * f[1], 2), TruncDiv((bh - oh) * f[2], 2)>>

\* int((50 + percent / 2) * base_dim / 100 - overlay_dim / 2)
\*   = int(((100 + percent) * base_dim - 100 * overlay_dim) / 200).
\* The float quotient by 100 is exact whenever the exact value is an integer
\* (the quotient is then a half-integer), and otherwise the exact value is at
\* least 1/200 away from any integer, so the truncation is that of the exact
\* rational.
PercentAxisFloor(percent, base_dim, overlay_dim) ==
    ((100 + percent) * base_dim - 100 * overlay_dim) \div 200

PercentAxis(percent, base_dim, overlay_dim) ==
    TruncDiv((100 + percent) * base_dim - 100 * overlay_dim, 200)

PercentAnchor(bw, bh, ow, oh, xp, yp) ==
    <<PercentAxis(xp, bw, ow), PercentAxis(yp, bh, oh)>>

\* round(px + (base_dim - overlay_dim) / 2)
PixelAxis(px, base_dim, overlay_dim) ==
    PyRoundHalf(2 * px + base_dim - overlay_dim)

PixelAnchor(bw, bh, ow, oh, xpx, ypx) ==
    <<PixelAxis(xpx, bw, ow), PixelAxis(ypx, bh, oh)>>

\* The if / elif / else that selects the anchor.
Anchor(pos, bw, bh, ow, oh, xp, yp, xpx, ypx) ==
    IF pos = "percent_offset" THEN PercentAnchor(bw, bh, ow, oh, xp, yp)
    ELSE IF pos = "pixel_offset" THEN PixelAnchor(bw, bh, ow, oh, xpx, ypx)
    ELSE FixedAnchor(pos, bw, bh, ow, oh)

\* max_dim = int((base_dim + overlay_dim) / 2); -1 * max_dim < offset < max_dim
RuntimeMaxDim(base_dim, overlay_dim) == TruncDiv(base_dim + overlay_dim, 2)

RuntimeOffsetValidInclusive(offset, base_dim, overlay_dim) ==
    LET max_dim == RuntimeMaxDim(base_dim, overlay_dim)
    IN  -1 * max_dim <= offset /\ offset <= max_dim

RuntimeOffsetValid(offset, base_dim, overlay_dim) ==
    LET max_dim == RuntimeMaxDim(base_dim, overlay_dim)
    IN  -1 * max_dim < offset /\ offset < max_dim

RangeMessage(axis, base_dim, overlay_dim) ==
    LET max_dim == RuntimeMaxDim(base_dim, overlay_dim)
    IN  <<axis, 1 - max_dim, max_dim - 1>>

\* The declared output type: isOffsetValid and `valid`.
isOffsetValid(offset, base_dim, overlay_dim) ==
    LET max_dim == NaviRoundHalf(base_dim + overlay_dim)
    IN  offset >= 1 - max_dim /\ offset <= max_dim - 1

DeclaredValid(pos, bw, bh, ow, oh, xpx, ypx) ==
    IF pos = "pixel_offset"
    THEN isOffsetValid(xpx, bw, ow) /\ isOffsetValid(ypx, bh, oh)
    ELSE TRUE

\* The declared output type's Image { width, height, channels }.
DeclaredShape(b, o) == [w |-> b.w, h |-> b.h, c |-> Max(b.c, o.c)]

\* Coordinates of intersection area
Intersection(ax, ay, bw, bh, ow, oh) ==
    [x0 |-> Max(0, ax), x1 |-> Min(ax + ow, bw),
     y0 |-> Max(0, ay), y1 |-> Min(ay + oh, bh)]

NonEmpty(i) == 0 <= i.x0 /\ i.x0 < i.x1 /\ 0 <= i.y0 /\ i.y0 < i.y1

OverlayRectUnsigned(ax, ay, i) ==
    LET ox == Max(0, ax)
        oy == Max(0, ay)
    IN  [x0 |-> ox, x1 |-> ox + i.x1 - i.x0,
         y0 |-> oy, y1 |-> oy + i.y1 - i.y0]

OverlayRect(ax, ay, i) ==
    LET ox == Max(0, -1 * ax)
        oy == Max(0, -1 * ay)
    IN  [x0 |-> ox, x1 |-> ox + i.x1 - i.x0,
         y0 |-> oy, y1 |-> oy + i.y1 - i.y0]

NoRect == [x0 |-> 0, x1 |-> 0, y0 |-> 0, y1 |-> 0]

----------------------------------------------------------------------------
(* The arguments of a call *)

Dims == (1 .. MaxH) \X (1 .. MaxW)

OpacityValues == {0, OpacityMax \div 2, OpacityMax}

\* SliderInput(minimum=-100, maximum=100, precision=0)
PercentValues ==
    {PercentMin, PercentMin \div 2, 0, PercentMax}

\* NumberInput(minimum=None): any integer; the model takes those around the
\* permitted range.
PxValuesX == (-MaxW) .. MaxW
PxValuesY == (-MaxH) .. MaxH

AlphaValues == {Scale, Scale \div 2}

NoError == [type |-> "", msg |-> "", file |-> <<>>]

\* images_to_video_node is not running.
VideoIdle ==
    /\ v_pc = "idle"
    /\ directory = {}
    /\ image_extension = ".png"
    /\ filepaths = {}
    /\ concat_file = <<>>
    /\ tmp_created = FALSE
    /\ ffmpeg_started = FALSE
    /\ stderr = <<>>
    /\ video_exists = FALSE
    /\ video_removed = FALSE
    /\ erroneous_file = <<>>
    /\ v_outcome = "none"
    /\ v_err = NoError

Init ==
    /\ VideoIdle
    /\ \E bd \in Dims, bc \in Channels : base = MakeBase(bd[1], bd[2], bc)
    /\ \E od \in Dims, oc \in Channels :
         \E a \in (IF oc = 4 THEN AlphaValues ELSE {Scale}) :
            overlay = MakeOverlay(od[1], od[2], oc, a)
    /\ opacity \in OpacityValues
    /\ overlay_position \in OverlayPosition
    /\ x_percent \in (IF overlay_position = "percent_offset"
                      THEN PercentValues ELSE {0})
    /\ y_percent \in (IF overlay_position = "percent_offset"
                      THEN PercentValues ELSE {0})
    /\ x_px \in (IF overlay_position = "pixel_offset" THEN PxValuesX ELSE {0})
    /\ y_px \in (IF overlay_position = "pixel_offset" THEN PxValuesY ELSE {0})
    /\ pc = "start"
    /\ x0 = 0 /\ y0 = 0
    /\ i_rect = NoRect /\ ov_rect = NoRect
    /\ ovl = EmptyImage /\ out = EmptyImage /\ blended_img = EmptyImage
    /\ ovl_ref = "caller" /\ out_ref = "caller"
    /\ outcome = "none" /\ err = <<>>
    /\ result = EmptyImage
    /\ trace = <<>>

----------------------------------------------------------------------------
(* The body of overlay_images_node, block by block *)

\* if opacity == 0
IsNoOpNever(op) == FALSE

IsNoOp(op) == op = 0

\* if opacity == 0: return base
ReturnBaseOnZeroOpacity ==
    /\ pc = "start"
    /\ IsNoOp(opacity)
    /\ result' = base
    /\ outcome' = "ok"
    /\ pc' = "done"
    /\ trace' = Append(trace, "return_base")
    /\ UNCHANGED vvars
    /\ UNCHANGED <<args, refs, x0, y0, i_rect, ov_rect, ovl, out, blended_img,
                   err>>

\* get_h_w_c of both images, then the anchor (x0, y0) for the position mode
ComputeAnchor ==
    /\ pc = "start"
    /\ ~IsNoOp(opacity)
    /\ LET b == get_h_w_c(base)
           o == get_h_w_c(overlay)
           a == Anchor(overlay_position, b[2], b[1], o[2], o[1],
                       x_percent, y_percent, x_px, y_px)
       IN  x0' = a[1] /\ y0' = a[2]
    /\ pc' = IF overlay_position = "pixel_offset" THEN "validate" ELSE "clip"
    /\ trace' = Append(trace, "placement")
    /\ UNCHANGED vvars
    /\ UNCHANGED <<args, refs, i_rect, ov_rect, ovl, out, blended_img,
                   outcome, err, result>>

\* the two asserts of the PIXEL_OFFSET branch, X first
ValidatePixelOffset ==
    /\ pc = "validate"
    /\ trace' = Append(trace, "validate")
    /\ UNCHANGED vvars
    /\ IF ~RuntimeOffsetValid(x_px, base.w, overlay.w)
       THEN /\ outcome' = "error"
            /\ err' = RangeMessage("X", base.w, overlay.w)
            /\ pc' = "done"
       ELSE IF ~RuntimeOffsetValid(y_px, base.h, overlay.h)
       THEN /\ outcome' = "error"
            /\ err' = RangeMessage("Y", base.h, overlay.h)
            /\ pc' = "done"
       ELSE /\ pc' = "clip"
            /\ UNCHANGED <<outcome, err>>
    /\ UNCHANGED <<args, refs, x0, y0, i_rect, ov_rect, ovl, out,
                   blended_img, result>>

\* x1, y1, the intersection area, the early return, the overlay sub-rectangle
ClipToBase ==
    /\ pc = "clip"
    /\ trace' = Append(trace, "clip")
    /\ UNCHANGED vvars
    /\ LET i == Intersection(x0, y0, base.w, base.h, overlay.w, overlay.h)
       IN  /\ i_rect' = i
           /\ IF ~NonEmpty(i)
              THEN /\ result' = base
                   /\ outcome' = "ok"
                   /\ pc' = "done"
                   /\ UNCHANGED ov_rect
              ELSE /\ ov_rect' = OverlayRect(x0, y0, i)
                   /\ pc' = "crop"
                   /\ UNCHANGED <<result, outcome>>
    /\ UNCHANGED <<args, refs, x0, y0, ovl, out, blended_img, err>>

\* Crop overlay image; copy base image
CropAndCopy ==
    /\ pc = "crop"
    /\ trace' = Append(trace, "crop")
    /\ UNCHANGED vvars
    /\ ovl' = IF ov_rect.y1 - ov_rect.y0 > 0 \/ ov_rect.x1 - ov_rect.x0 > 0
              THEN CropImage(overlay, ov_rect.y0, ov_rect.y1,
                             ov_rect.x0, ov_rect.x1)
              ELSE overlay
    /\ ovl_ref' = SliceRef("caller")
    /\ out' = base
    /\ out_ref' = CopyRef("caller")
    /\ pc' = "opacity"
    /\ UNCHANGED <<args, x0, y0, i_rect, ov_rect, blended_img, outcome, err,
                   result>>

\* Apply opacity
ApplyOpacity ==
    /\ pc = "opacity"
    /\ trace' = Append(trace, "opacity")
    /\ UNCHANGED vvars
    /\ IF ~(opacity = OpacityMax /\ overlay.c = 4)
       THEN /\ ovl' = ScaleAlpha(convert_to_BGRA(ovl, overlay.c), opacity)
            /\ ovl_ref' = ConvertedRef(ovl_ref, overlay.c)
            /\ overlay' = WriteThrough(ovl_ref', overlay,
                                       ov_rect.y0, ov_rect.y1,
                                       ov_rect.x0, ov_rect.x1, ovl')
       ELSE UNCHANGED <<ovl, ovl_ref, overlay>>
    /\ pc' = "blend"
    /\ UNCHANGED <<base, params, out, out_ref, x0, y0, i_rect, ov_rect,
                   blended_img, outcome, err, result>>

\* Overlay areas
BlendAreas ==
    /\ pc = "blend"
    /\ trace' = Append(trace, "blend")
    /\ UNCHANGED vvars
    /\ blended_img' =
         blend_images(ovl, CropImage(out, i_rect.y0, i_rect.y1,
                                     i_rect.x0, i_rect.x1))
    /\ pc' = "write"
    /\ UNCHANGED <<args, refs, x0, y0, i_rect, ov_rect, ovl, out, outcome,
                   err, result>>

\* Blended area and output shall have the same channel count
Reconcile(img, base_channel_count, blended_channel_count) ==
    IF base_channel_count < blended_channel_count
    THEN IF blended_channel_count = 4
         THEN convert_to_BGRA(img, base_channel_count)
         ELSE StackGrey3(img)
    ELSE img

\* The buffer `output` points to after the channel counts are reconciled.
ReconciledRef(ref, base_channel_count, blended_channel_count) ==
    IF base_channel_count < blended_channel_count
    THEN IF blended_channel_count = 4
         THEN ConvertedRef(ref, base_channel_count)
         ELSE StackedRef(ref)
    ELSE ref

\* The image returned after blending: the whole output, region overwritten.
ReturnedRegionOnly(output, i, region) == region

Returned(output, i, region) ==
    AssignRegion(output, i.y0, i.y1, i.x0, i.x1, region)

\* Reconcile the channel counts, overwrite base area, return output
WriteBack ==
    /\ pc = "write"
    /\ trace' = Append(trace, "write")
    /\ UNCHANGED vvars
    /\ LET output == Reconcile(out, base.c, blended_img.c)
       IN  /\ out' = Returned(output, i_rect, blended_img)
           /\ result' = out'
    /\ out_ref' = ReconciledRef(out_ref, base.c, blended_img.c)
    /\ base' = WriteThrough(out_ref', base, i_rect.y0, i_rect.y1,
                            i_rect.x0, i_rect.x1, blended_img)
    /\ outcome' = "ok"
    /\ pc' = "done"
    /\ UNCHANGED <<overlay, params, x0, y0, i_rect, ov_rect, ovl, ovl_ref,
                   blended_img, err>>

Next ==
    \/ ReturnBaseOnZeroOpacity
    \/ ComputeAnchor
    \/ ValidatePixelOffset
    \/ ClipToBase
    \/ CropAndCopy
    \/ ApplyOpacity
    \/ BlendAreas
    \/ WriteBack

Spec == Init /\ [][Next]_vars

----------------------------------------------------------------------------
(* Vocabulary of the properties *)

Done == pc = "done"

ReturnedImage == pc = "done" /\ outcome = "ok"

Did(step) == \E n \in 1 .. Len(trace) : trace[n] = step

PixelMode == overlay_position = "pixel_offset"

\* The placement rectangle the arguments determine, and whether it misses
\* the base altogether.
PlacementOutside ==
    LET a == Anchor(overlay_position, base.w, base.h, overlay.w, overlay.h,
                    x_percent, y_percent, x_px, y_px)
    IN  \/ a[1] >= base.w
        \/ a[1] + overlay.w <= 0
        \/ a[2] >= base.h
        \/ a[2] + overlay.h <= 0

OverlayOpaque ==
    overlay.c = 4 => \A p \in DOMAIN overlay.px : overlay.px[p][4] = Scale

----------------------------------------------------------------------------
(* C1: every image the node returns has exactly the base's width and       *)
(* height, whichever path returned it (opacity 0, empty intersection,      *)
(* blended).                                                               *)
C1_ResultHasBaseSize ==
    ReturnedImage =>
        /\ result.w = base.w
        /\ result.h = base.h
        /\ DOMAIN result.px = Coords(base.h, base.w)

\* A blended result where the overlay is wider than the base and was clipped.
C1_Witness ==
    /\ ReturnedImage
    /\ Did("write")
    /\ overlay.w > base.w
    /\ ov_rect.x0 > 0
    /\ result.w = base.w

(* C2: the channel count of every returned image is max(base channels,     *)
(* overlay channels), the declared output type; a 3-channel base with a    *)
(* 4-channel overlay gives 4 channels at every opacity and position.       *)
C2_ChannelsAreDeclaredMax ==
    ReturnedImage => result.c = DeclaredShape(base, overlay).c

(* C3: in pixel-offset mode the runtime check accepts an offset on an axis *)
(* exactly when the declared isOffsetValid accepts it, i.e. when           *)
(* 1 - max_dim <= offset <= max_dim - 1 with max_dim = round((b + o) / 2). *)
C3_RuntimeAcceptsDeclaredRange ==
    (Done /\ PixelMode /\ Did("validate")) =>
        LET xRejected == outcome = "error" /\ err[1] = "X"
            yRejected == outcome = "error" /\ err[1] = "Y"
        IN  /\ ~xRejected <=> isOffsetValid(x_px, base.w, overlay.w)
            /\ ~xRejected =>
                 (~yRejected <=> isOffsetValid(y_px, base.h, overlay.h))

(* C4: in pixel-offset mode an offset outside the permitted range always   *)
(* ends the call in a validation error, at every opacity; no image is      *)
(* returned and nothing is blended.                                        *)
C4_InvalidOffsetAlwaysRejected ==
    (Done /\ PixelMode
          /\ ~DeclaredValid(overlay_position, base.w, base.h,
                            overlay.w, overlay.h, x_px, y_px)) =>
        /\ outcome = "error"
        /\ result = EmptyImage
        /\ ~Did("blend")

C7_PixelZeroIsCentered ==
    (Did("placement") /\ PixelMode /\ x_px = 0 /\ y_px = 0) =>
        <<x0, y0>> = FixedAnchor("centered", base.w, base.h,
                                 overlay.w, overlay.h)

(* C8: in percent-offset mode with offsets (0, 0) the anchor equals the    *)
(* anchor of the fixed "centered" mode, for all dimensions, odd and        *)
(* negative differences included.                                          *)
C8_PercentZeroIsCentered ==
    (Did("placement") /\ overlay_position = "percent_offset"
                      /\ x_percent = 0 /\ y_percent = 0) =>
        <<x0, y0>> = FixedAnchor("centered", base.w, base.h,
                                 overlay.w, overlay.h)

\* An overlay three pixels wider than the base: the difference is odd and
\* negative, and the anchor is -1 (-1.5 truncated toward zero).
C8_Witness ==
    /\ Did("placement")
    /\ overlay_position = "percent_offset"
    /\ x_percent = 0 /\ y_percent = 0
    /\ base.w - overlay.w = -3
    /\ x0 = -1

(* C9: for the nine fixed modes and an overlay no larger than the base,    *)
(* the intersection has exactly the overlay's size and its top-left corner *)
(* is ((Wb - Wo) * fx, (Hb - Ho) * fy) truncated, fx and fy being 0 for    *)
(* left / top, 0.5 for centered and 1 for right / bottom.                  *)
C9_FixedModesDoNotClip ==
    (Did("clip") /\ overlay_position \in FixedPositions
                 /\ overlay.w <= base.w /\ overlay.h <= base.h) =>
        LET fx2 == IF overlay_position \in
                        {"top_left", "centered_left", "bottom_left"} THEN 0
                   ELSE IF overlay_position \in
                        {"top_centered", "centered", "bottom_centered"} THEN 1
                   ELSE 2
            fy2 == IF overlay_position \in
                        {"top_left", "top_centered", "top_right"} THEN 0
                   ELSE IF overlay_position \in
                        {"centered_left", "centered", "centered_right"} THEN 1
                   ELSE 2
        IN  /\ i_rect.x1 - i_rect.x0 = overlay.w
            /\ i_rect.y1 - i_rect.y0 = overlay.h
            /\ i_rect.x0 = ((base.w - overlay.w) * fx2) \div 2
            /\ i_rect.y0 = ((base.h - overlay.h) * fy2) \div 2

\* Top-right with a strictly smaller overlay: the corner is not (0, 0).
C9_Witness ==
    /\ Did("clip")
    /\ overlay_position = "top_right"
    /\ base.w = 4 /\ overlay.w = 1
    /\ i_rect.x0 = 3 /\ i_rect.x1 = 4 /\ i_rect.y0 = 0

(* C10: with opacity 100 and a fully opaque overlay, every output pixel    *)
(* inside the intersection is the overlay pixel mapped onto it and every   *)
(* output pixel outside it is the base pixel at the same coordinates       *)
(* (pixels compared as colours, i.e. after promotion to BGRA).             *)
C10_OpaqueOverlayReplacesRegion ==
    (ReturnedImage /\ opacity = OpacityMax /\ OverlayOpaque) =>
        \A p \in Coords(base.h, base.w) :
            IF /\ i_rect.y0 <= p[1] /\ p[1] < i_rect.y1
               /\ i_rect.x0 <= p[2] /\ p[2] < i_rect.x1
            THEN PixelToBGRA(result.px[p]) =
                 PixelToBGRA(overlay.px[<<ov_rect.y0 + (p[1] - i_rect.y0),
                                          ov_rect.x0 + (p[2] - i_rect.x0)>>])
            ELSE PixelToBGRA(result.px[p]) = PixelToBGRA(base.px[p])

\* A grey base under a wider colour overlay whose left part is cut off.
C10_Witness ==
    /\ ReturnedImage
    /\ Did("write")
    /\ opacity = OpacityMax
    /\ OverlayOpaque
    /\ base.c = 1 /\ overlay.c = 3
    /\ ov_rect.x0 > 0
    /\ i_rect.x1 - i_rect.x0 < base.w + overlay.w

(* C11: on every path the caller's base buffer and overlay buffer keep     *)
(* their contents: no step of the call writes to either of them; the       *)
(* opacity scaling and the write-back of the blended region land in        *)
(* private arrays.                                                         *)
C11_InputsNeverWritten ==
    [][base' = base /\ overlay' = overlay]_vars

\* A 4-channel base under a 4-channel overlay at half opacity: the output is
\* not converted, so only base.copy() keeps the write-back off the caller's
\* buffer, and the alpha plane was scaled in a private array.
C11_Witness ==
    /\ ReturnedImage
    /\ Did("opacity") /\ Did("write")
    /\ base.c = 4 /\ overlay.c = 4
    /\ opacity = OpacityMax \div 2
    /\ ovl_ref = "private" /\ out_ref = "private"
    /\ result # base
    /\ \E p \in DOMAIN ovl.px : ovl.px[p][4] # overlay.px[<<p[1] + ov_rect.y0,
                                                           p[2] + ov_rect.x0>>][4]

\* Whether the placement a pixel offset yields on one axis overlaps the base.
AxisOverlaps(offset, base_dim, overlay_dim) ==
    LET a == PixelAxis(offset, base_dim, overlay_dim)
    IN  Max(0, a) < Min(a + overlay_dim, base_dim)

(* C12: in pixel-offset mode validation rejects an offset on an axis       *)
(* exactly when the placement it yields has no pixel in common with the    *)
(* base on that axis; hence the empty-intersection return is never taken   *)
(* once a pixel offset has been validated.                                 *)
C12_RejectedIffNoOverlap ==
    /\ (Done /\ PixelMode /\ Did("validate")) =>
          LET xRejected == outcome = "error" /\ err[1] = "X"
              yRejected == outcome = "error" /\ err[1] = "Y"
          IN  /\ xRejected <=> ~AxisOverlaps(x_px, base.w, overlay.w)
              /\ ~xRejected =>
                   (yRejected <=> ~AxisOverlaps(y_px, base.h, overlay.h))
    /\ (PixelMode /\ Did("clip")) => NonEmpty(i_rect)

(* C13: whenever the intersection is non-empty, the overlay sub-rectangle  *)
(* has exactly the intersection's width and height and lies within the     *)
(* overlay, and the intersection lies within the base, for every anchor    *)
(* (negative ones included).                                               *)
C13_ClippedRectanglesInBounds ==
    (Did("clip") /\ NonEmpty(i_rect)) =>
        /\ ov_rect.x1 - ov_rect.x0 = i_rect.x1 - i_rect.x0
        /\ ov_rect.y1 - ov_rect.y0 = i_rect.y1 - i_rect.y0
        /\ 0 <= ov_rect.x0 /\ ov_rect.x0 < ov_rect.x1
        /\ ov_rect.x1 <= overlay.w
        /\ 0 <= ov_rect.y0 /\ ov_rect.y0 < ov_rect.y1
        /\ ov_rect.y1 <= overlay.h
        /\ 0 <= i_rect.x0 /\ i_rect.x0 < i_rect.x1 /\ i_rect.x1 <= base.w
        /\ 0 <= i_rect.y0 /\ i_rect.y0 < i_rect.y1 /\ i_rect.y1 <= base.h

\* An anchor negative on x and positive on y: the overlay is cut on the left
\* and on the right, and sits below the top edge of the base.
C13_Witness ==
    /\ Did("clip")
    /\ NonEmpty(i_rect)
    /\ x0 < 0 /\ x0 + overlay.w > base.w
    /\ y0 > 0
    /\ ov_rect.x0 = -x0 /\ ov_rect.x1 < overlay.w
    /\ i_rect.y0 = y0

----------------------------------------------------------------------------
(* images_to_video_node                                                    *)

\* Bounds of the model
MaxPng == 5
MaxLines == 3

\* assert len(filepaths) >= 5
MinImages == 5

ImageExtension == {".bmp", ".jpeg", ".jpg", ".png"}

\* os.path.splitext(filepath)[1].lower()
Lower(ext) == IF ext = ".PNG" THEN ".png" ELSE ext

get_extension(entry) == Lower(entry.ext)

\* What image_directory may hold: .png files, a file with an upper-case
\* extension, a file of another type, and a sub-directory named like an image.
DirectoryUniverse ==
    {[id |-> n, isfile |-> TRUE, ext |-> ".png"] : n \in 1 .. MaxPng}
    \cup {[id |-> MaxPng + 1, isfile |-> TRUE, ext |-> ".PNG"],
          [id |-> MaxPng + 2, isfile |-> TRUE, ext |-> ".jpg"],
          [id |-> MaxPng + 3, isfile |-> FALSE, ext |-> ".png"]}

\* The listing loop: regular files whose extension is the chosen one.
ListedFiles(dir, extension) ==
    {e \in dir : e.isfile /\ get_extension(e) = extension}

\* sorted(filepaths)
RECURSIVE SortedPaths(_)
SortedPaths(S) ==
    IF S = {} THEN <<>>
    ELSE LET m == CHOOSE e \in S : \A f \in S : e.id <= f.id
         IN  <<m>> \o SortedPaths(S \ {m})

\* File names as FFmpeg prints them, as sequences of pieces; "QUOTE",
\* "DQUOTE" and "BACKSLASH_N" stand for the characters the code deletes.
ReportedNames == {<<"a.png">>, <<"it", "QUOTE", "s.png">>}

KeptPiece(t) == t \notin {"BACKSLASH_N", "DQUOTE", "QUOTE"}

\* match.group(1).replace('\\n', '').replace('\"', '').replace('\'', '')
StripName(name) == SelectSeq(name, KeptPiece)

\* A line of stderr: whether it starts with '[', whether the pattern
\* "Impossible to open '(.*)'" is found in it, and the name captured.
StderrLines ==
    {[bracket |-> b, impossible |-> TRUE, file |-> f] :
        b \in BOOLEAN, f \in ReportedNames}
    \cup {[bracket |-> b, impossible |-> FALSE, file |-> <<>>] :
            b \in BOOLEAN}

SeqsUpTo(S, n) == UNION {[1 .. k -> S] : k \in 0 .. n}

\* for line in reversed(stderr): the first line, from the end, that starts
\* with '[' and matches; 0 when there is none.
ErrLineIndex(lines) ==
    LET hits == {n \in 1 .. Len(lines) :
                    lines[n].bracket /\ lines[n].impossible}
    IN  IF hits = {} THEN 0
        ELSE CHOOSE n \in hits : \A k \in hits : k <= n

\* overlay_images_node is not running.
OverlayIdle ==
    /\ base = EmptyImage /\ overlay = EmptyImage
    /\ opacity = 0
    /\ overlay_position = "centered"
    /\ x_percent = 0 /\ y_percent = 0 /\ x_px = 0 /\ y_px = 0
    /\ pc = "idle"
    /\ x0 = 0 /\ y0 = 0
    /\ i_rect = NoRect /\ ov_rect = NoRect
    /\ ovl = EmptyImage /\ out = EmptyImage /\ blended_img = EmptyImage
    /\ ovl_ref = "caller" /\ out_ref = "caller"
    /\ outcome = "none" /\ err = <<>>
    /\ result = EmptyImage
    /\ trace = <<>>

VideoInit ==
    /\ OverlayIdle
    /\ v_pc = "start"
    /\ directory \in SUBSET DirectoryUniverse
    /\ image_extension \in ImageExtension
    /\ filepaths = {}
    /\ concat_file = <<>>
    /\ tmp_created = FALSE
    /\ ffmpeg_started = FALSE
    /\ stderr = <<>>
    /\ video_exists = FALSE
    /\ video_removed = FALSE
    /\ erroneous_file = <<>>
    /\ v_outcome = "none"
    /\ v_err = NoError

\* List files
ListFiles ==
    /\ v_pc = "start"
    /\ filepaths' = ListedFiles(directory, image_extension)
    /\ v_pc' = "check"
    /\ UNCHANGED <<ovars, directory, image_extension, concat_file,
                   tmp_created, ffmpeg_started, stderr, video_exists,
                   video_removed, erroneous_file, v_outcome, v_err>>

\* assert len(filepaths) >= 5, "Not enough images to generate a video"
CheckEnoughImages ==
    /\ v_pc = "check"
    /\ IF Cardinality(filepaths) >= MinImages
       THEN /\ v_pc' = "concat"
            /\ UNCHANGED <<v_outcome, v_err>>
       ELSE /\ v_pc' = "done"
            /\ v_outcome' = "error"
            /\ v_err' = [type |-> "AssertionError",
                         msg |-> "Not enough images to generate a video",
                         file |-> <<>>]
    /\ UNCHANGED <<ovars, directory, image_extension, filepaths, concat_file,
                   tmp_created, ffmpeg_started, stderr, video_exists,
                   video_removed, erroneous_file>>

\* Create a concatenation file used by FFmpeg
WriteConcatFile ==
    /\ v_pc = "concat"
    /\ tmp_created' = TRUE
    /\ concat_file' = SortedPaths(filepaths)
    /\ v_pc' = "ffmpeg"
    /\ UNCHANGED <<ovars, directory, image_extension, filepaths,
                   ffmpeg_started, stderr, video_exists, video_removed,
                   erroneous_file, v_outcome, v_err>>

\* Generate and execute FFmpeg command; process.communicate().  What FFmpeg
\* writes to stderr and whether it created the output file are its own.
RunFFmpeg ==
    /\ v_pc = "ffmpeg"
    /\ ffmpeg_started' = TRUE
    /\ stderr' \in SeqsUpTo(StderrLines, MaxLines)
    /\ video_exists' \in BOOLEAN
    /\ v_pc' = "scan"
    /\ UNCHANGED <<ovars, directory, image_extension, filepaths, concat_file,
                   tmp_created, video_removed, erroneous_file, v_outcome,
                   v_err>>

\* Detect error: the scan of stderr, and os.remove(video_filepath), which
\* raises FileNotFoundError when there is no such file.
ScanStderr ==
    /\ v_pc = "scan"
    /\ LET n == ErrLineIndex(stderr)
       IN  IF Len(stderr) > 0 /\ n > 0
           THEN /\ erroneous_file' = StripName(stderr[n].file)
                /\ IF video_exists
                   THEN /\ video_exists' = FALSE
                        /\ video_removed' = TRUE
                        /\ v_pc' = "assert"
                        /\ UNCHANGED <<v_outcome, v_err>>
                   ELSE /\ v_pc' = "done"
                        /\ v_outcome' = "error"
                        /\ v_err' = [type |-> "FileNotFoundError",
                                     msg |-> "No such file or directory",
                                     file |-> <<"video_filepath">>]
                        /\ UNCHANGED <<video_exists, video_removed>>
           ELSE /\ v_pc' = "assert"
                /\ UNCHANGED <<erroneous_file, video_exists, video_removed,
                               v_outcome, v_err>>
    /\ UNCHANGED <<ovars, directory, image_extension, filepaths, concat_file,
                   tmp_created, ffmpeg_started, stderr>>

\* assert erroneous_file == '', f"erroneous file: {erroneous_file}"
FinalAssert ==
    /\ v_pc = "assert"
    /\ v_pc' = "done"
    /\ IF erroneous_file = <<>>
       THEN /\ v_outcome' = "ok"
            /\ UNCHANGED v_err
       ELSE /\ v_outcome' = "error"
            /\ v_err' = [type |-> "AssertionError",
                         msg |-> "erroneous file",
                         file |-> erroneous_file]
    /\ UNCHANGED <<ovars, directory, image_extension, filepaths, concat_file,
                   tmp_created, ffmpeg_started, stderr, video_exists,
                   video_removed, erroneous_file>>

VideoNext ==
    \/ ListFiles
    \/ CheckEnoughImages
    \/ WriteConcatFile
    \/ RunFFmpeg
    \/ ScanStderr
    \/ FinalAssert

VideoSpec == VideoInit /\ [][VideoNext]_vars

(* C14: with fewer than 5 files of the chosen extension the node fails     *)
(* with "Not enough images" before a temporary file exists or FFmpeg is    *)
(* started; otherwise, if a stderr line starting with '[' reports          *)
(* "Impossible to open '<file>'", the node removes the output video and    *)
(* then fails with an error naming that file; in every other case it       *)
(* returns without error and leaves the output video in place.             *)
C14_VideoOutcome ==
    v_pc = "done" =>
        IF Cardinality(ListedFiles(directory, image_extension)) < MinImages
        THEN /\ v_outcome = "error"
             /\ v_err.msg = "Not enough images to generate a video"
             /\ ~tmp_created
             /\ ~ffmpeg_started
        ELSE IF \E n \in 1 .. Len(stderr) :
                    stderr[n].bracket /\ stderr[n].impossible
        THEN /\ v_outcome = "error"
             /\ v_err.msg = "erroneous file"
             /\ v_err.file = StripName(stderr[ErrLineIndex(stderr)].file)
             /\ video_removed
             /\ ~video_exists
        ELSE /\ v_outcome = "ok"
             /\ ~video_removed

====
